---- MODULE Spec2Model ----
(***************************************************************************)
(* WordDocumentService (word-document.service.ts): the four operations of  *)
(* the service, each a Word.run batch against the document held by the     *)
(* Word host, modelled as state machines over one shared document.         *)
(*                                                                         *)
(* The document body is a sequence of paragraphs, a paragraph a sequence   *)
(* of words.  A paragraph occupies one unit of the body per word plus one  *)
(* unit for its paragraph mark; a range is a half-open span of units.      *)
(* Commands are queued on the request context of an invocation and take    *)
(* effect in the host only at a context.sync().                            *)
(***************************************************************************)
EXTENDS Integers, Sequences, FiniteSets, TLC

\* ---------------------------------------------------------------- bounds
\* Largest number of paragraphs of an initial document or an input list.
MaxParas == 2
\* Largest number of words of a paragraph of an initial document.
MaxWords == 1

\* ------------------------------------------------------------ vocabulary
Words == {"Cat", "dog"}
SearchStrings == {"cat", "dog"}
ReplaceStrings == Words

\* The invocations that may be in flight.
Inv == {"a", "b"}

Texts == UNION {[1..k -> Words] : k \in 0..MaxWords}
Docs == UNION {[1..k -> Texts] : k \in 1..MaxParas}

\* Documents of the sample scenario (two paragraphs with the same word in
\* second position) and of a whole-word miss.
SampleDocs ==
  { << <<"The", "cat", "sat">>, <<"The", "cat", "ran">> >>,
    << <<"cats", "Cat">>, <<"dog", "cat">> >> }

\* The entries replaceDocumentContent is given.
InputTexts == { <<>>, <<"Cat">>, <<"dog", "Cat">> }
ParagraphInputs == UNION {[1..k -> InputTexts] : k \in 1..MaxParas}

\* Decimal strings of the paragraph indices 0..9.
Digit == <<"0", "1", "2", "3", "4", "5", "6", "7", "8", "9">>

\* excludedParagraphs: the paragraph locators the caller supplies, none, one
\* (in range or one past the end) or two.  A single locator is the string the
\* signature declares; a list of locators reaches the property access of
\* line 37 as its JavaScript string form.
LocatorInputs ==
  {<<>>} \cup {<<Digit[n + 1]>> : n \in 0..MaxParas} \cup {<<"0", "1">>}

\* ------------------------------------------------------- host primitives
\* matchCase: false.
Lower(w) ==
  CASE w = "Cat" -> "cat"
    [] w = "The" -> "the"
    [] OTHER -> w

\* The first unit of paragraph p of document d.
RECURSIVE Offset(_, _)
Offset(d, p) == IF p = 1 THEN 0 ELSE Offset(d, p - 1) + Len(d[p - 1]) + 1

\* The span of the word w of paragraph p, and of the whole paragraph p
\* (getRange('Whole'): its words and its paragraph mark).
WordSpan(d, m) == [start |-> Offset(d, m[1]) + m[2] - 1, end |-> Offset(d, m[1]) + m[2]]
ParaSpan(d, p) == [start |-> Offset(d, p), end |-> Offset(d, p) + Len(d[p]) + 1]

\* The words of the document in document order, as <<paragraph, word>>.
RECURSIVE PositionsFrom(_, _, _)
PositionsFrom(d, p, w) ==
  IF p > Len(d) THEN <<>>
  ELSE IF w > Len(d[p]) THEN PositionsFrom(d, p + 1, 1)
  ELSE <<<<p, w>>>> \o PositionsFrom(d, p, w + 1)

\* body.search(searchString, {matchCase: false, matchWholeWord: true}): the
\* ranges of the words equal to the search string up to case, in document order.
IsMatch(d, m, s) == Lower(d[m[1]][m[2]]) = Lower(s)
Search(d, s) == SelectSeq(PositionsFrom(d, 1, 1), LAMBDA m : IsMatch(d, m, s))

\* Word.LocationRelation of span a with respect to span b.
CompareSpans(a, b) ==
  CASE a.start = b.start /\ a.end = b.end -> "Equal"
    [] a.end < b.start -> "Before"
    [] a.end = b.start -> "AdjacentBefore"
    [] a.start > b.end -> "After"
    [] a.start = b.end -> "AdjacentAfter"
    [] a.start = b.start /\ a.end < b.end -> "InsideStart"
    [] a.start > b.start /\ a.end = b.end -> "InsideEnd"
    [] a.start > b.start /\ a.end < b.end -> "Inside"
    [] a.start = b.start /\ a.end > b.end -> "ContainsStart"
    [] a.start < b.start /\ a.end = b.end -> "ContainsEnd"
    [] a.start < b.start /\ a.end > b.end -> "Contains"
    [] a.start < b.start /\ a.end < b.end -> "OverlapsBefore"
    [] OTHER -> "OverlapsAfter"

\* foundItems.items[i].compareLocationWith(excludedRanges[j]) as the host
\* evaluates it on document d: match m against the whole paragraph p.
CompareLocationWith(d, m, p) == CompareSpans(WordSpan(d, m), ParaSpan(d, p))

\* ------------------------------------------------------------- JavaScript
\* The property key an excludedParagraphs value is converted to: the string
\* itself, or the elements of a list joined by commas.
RECURSIVE PropertyKey(_)
PropertyKey(e) ==
  IF e = <<>> THEN <<>>
  ELSE IF Len(e) = 1 THEN <<e[1]>>
  ELSE <<e[1], ",">> \o PropertyKey(Tail(e))

\* items[key] with an index beyond the last item clamped to the last item.
ItemAtClamped(n, key) ==
  IF Len(key) = 1 /\ \E k \in 1..Len(Digit) : Digit[k] = key[1]
  THEN LET at == CHOOSE k \in 1..Len(Digit) : Digit[k] = key[1]
       IN IF at <= n THEN at ELSE n
  ELSE 0

\* items[key] on an array of n items: the item (1-based here) when the key is
\* the decimal string of an index below n, else undefined (0).
ItemAt(n, key) ==
  IF Len(key) = 1 /\ \E k \in 1..Len(Digit) : Digit[k] = key[1] /\ k <= n
  THEN CHOOSE k \in 1..Len(Digit) : Digit[k] = key[1]
  ELSE 0

\* ------------------------------------------------------------------ OOXML
\* body.getOoxml(): the paragraphs of the body, each between its tags.
RECURSIVE ToOoxmlFrom(_, _)
ToOoxmlFrom(d, p) ==
  IF p > Len(d) THEN <<>>
  ELSE <<"<w:p>">> \o d[p] \o <<"</w:p>">> \o ToOoxmlFrom(d, p + 1)
ToOoxml(d) == ToOoxmlFrom(d, 1)

\* The paragraphs of a markup, or <<>> when it is not well formed.
RECURSIVE FromOoxmlRec(_, _, _, _)
FromOoxmlRec(x, k, open, acc) ==
  IF k > Len(x) THEN (IF open THEN <<>> ELSE acc)
  ELSE IF x[k] = "<w:p>"
    THEN (IF open THEN <<>> ELSE FromOoxmlRec(x, k + 1, TRUE, Append(acc, <<>>)))
  ELSE IF x[k] = "</w:p>"
    THEN (IF open THEN FromOoxmlRec(x, k + 1, FALSE, acc) ELSE <<>>)
  ELSE IF open
    THEN FromOoxmlRec(x, k + 1, TRUE, [acc EXCEPT ![Len(acc)] = Append(@, x[k])])
  ELSE <<>>
FromOoxml(x) == FromOoxmlRec(x, 1, FALSE, <<>>)

\* The markups setOoxml is given: those of the input lists, and one that is
\* not well formed.
OoxmlInputs == {ToOoxml(d) : d \in ParagraphInputs} \cup {<<"Cat">>}


\* --------------------------------------------------------- queued commands
\* A command queued on a request context: a mutation of the body (range
\* <<0, 0>>) or of the range of a word.
Cmd(type, range, text) == [type |-> type, range |-> range, text |-> text]
Body == <<0, 0>>

\* Whether the host can execute command c on document d: the range still
\* exists, the markup is well formed.
CanExecCmd(d, c) ==
  CASE c.type = "insertText:Replace" ->
         c.range[1] \in DOMAIN d /\ c.range[2] \in DOMAIN d[c.range[1]]
    [] c.type = "insertOoxml:Replace" -> FromOoxml(c.text) # <<>>
    [] OTHER -> TRUE

\* The document after the host has executed command c.
ExecCmd(d, c) ==
  CASE c.type = "clear" -> << <<>> >>
    [] c.type = "insertText:End" -> [d EXCEPT ![Len(d)] = @ \o c.text]
    [] c.type = "insertParagraph:End" -> Append(d, c.text)
    [] c.type = "insertText:Replace" ->
         [d EXCEPT ![c.range[1]][c.range[2]] = c.text[1]]
    [] c.type = "insertOoxml:Replace" -> FromOoxml(c.text)
    [] OTHER -> d

\* The document after the first k commands of queue q, in queue order.
RECURSIVE ExecAll(_, _, _)
ExecAll(d, q, k) == IF k = 0 THEN d ELSE ExecCmd(ExecAll(d, q, k - 1), q[k])

\* Whether the host can execute the first k commands of q.
CanExec(d, q, k) == \A n \in 1..k : CanExecCmd(ExecAll(d, q, n - 1), q[n])

\* ------------------------------------------------------------------ state
VARIABLES
  doc,                   \* the body of the document in the host
  pc,                    \* where each invocation stands
  op,                    \* the operation each invocation runs
  arg,                   \* its arguments
  foundItems,            \* replaceFoundStringsWithExceptions: the loaded matches
  paras,                 \* ... the number of items of the loaded paragraphs
  excludedRanges,        \* ... the ranges of the excluded paragraphs
  replacementCandidates, \* ... one record per compared (match, range)
  bodyOOXML,             \* getOoxml: the loaded markup
  queue,                 \* the commands queued on the request context
  err,                   \* the error the Word.run promise was rejected with
  log,                   \* what the invocation wrote to the console
  ret,                   \* what the operation returned to its caller
  chain,                 \* the promise Word.run(...).catch(...) gives
  value,                 \* the value that promise is fulfilled with
  doc0                   \* the body when the operation was called

vars == <<doc, pc, op, arg, foundItems, paras, excludedRanges,
          replacementCandidates, bodyOOXML, queue, err, log, ret, chain,
          value, doc0>>

locals == <<foundItems, paras, excludedRanges, replacementCandidates, bodyOOXML>>

Undefined == [type |-> "undefined", str |-> <<>>]
Str(s) == [type |-> "string", str |-> s]

NoArg == [searchString |-> "", replaceString |-> "", excludedParagraphs |-> <<>>,
          paragraphs |-> <<>>, ooxml |-> <<>>]

InitDocs == Docs \cup SampleDocs

Idle ==
  /\ pc = [i \in Inv |-> "idle"]
  /\ op = [i \in Inv |-> "none"]
  /\ arg = [i \in Inv |-> NoArg]
  /\ foundItems = [i \in Inv |-> <<>>]
  /\ paras = [i \in Inv |-> 0]
  /\ excludedRanges = [i \in Inv |-> <<>>]
  /\ replacementCandidates = [i \in Inv |-> <<>>]
  /\ bodyOOXML = [i \in Inv |-> <<>>]
  /\ queue = [i \in Inv |-> <<>>]
  /\ err = [i \in Inv |-> "none"]
  /\ log = [i \in Inv |-> <<>>]
  /\ ret = [i \in Inv |-> "none"]
  /\ chain = [i \in Inv |-> "none"]
  /\ value = [i \in Inv |-> Undefined]
  /\ doc0 = [i \in Inv |-> << <<>> >>]

Init == doc \in InitDocs /\ Idle

\* Word.run(batch): a fresh request context; the commands the batch queues
\* before its first context.sync() are q, and r is what the operation returns
\* while the promise chain is still pending.
WordRun(i, o, a, q, r) ==
  /\ pc[i] = "idle"
  /\ pc' = [pc EXCEPT ![i] = "sync1"]
  /\ op' = [op EXCEPT ![i] = o]
  /\ arg' = [arg EXCEPT ![i] = a]
  /\ queue' = [queue EXCEPT ![i] = q]
  /\ ret' = [ret EXCEPT ![i] = r]
  /\ chain' = [chain EXCEPT ![i] = "pending"]
  /\ doc0' = [doc0 EXCEPT ![i] = doc]
  /\ UNCHANGED <<doc, foundItems, paras, excludedRanges, replacementCandidates,
                 bodyOOXML, err, log, value>>

\* ------------------------------------------------------------- operations
\* replaceFoundStringsWithExceptions, to its first context.sync(): the search
\* and the paragraphs are queued to load; the function returns nothing.
replaceFoundStringsWithExceptions(i, searchString, replaceString, excludedParagraphs) ==
  WordRun(i, "replaceFoundStringsWithExceptions",
          [NoArg EXCEPT !.searchString = searchString,
                        !.replaceString = replaceString,
                        !.excludedParagraphs = excludedParagraphs],
          <<>>, "undefined")

\* The commands with insertParagraph used for the first entry too.
ContentCommandsAllParagraphs(paragraphs) ==
  <<Cmd("clear", Body, <<>>)>>
  \o [k \in 1..Len(paragraphs) |-> Cmd("insertParagraph:End", Body, paragraphs[k])]

\* The commands replaceDocumentContent queues: clear, the first entry as
\* text, every later entry as a paragraph, all at the end of the body.
ContentCommands(paragraphs) ==
  <<Cmd("clear", Body, <<>>), Cmd("insertText:End", Body, paragraphs[1])>>
  \o [k \in 1..(Len(paragraphs) - 1) |->
        Cmd("insertParagraph:End", Body, paragraphs[k + 1])]

replaceDocumentContent(i, paragraphs) ==
  WordRun(i, "replaceDocumentContent", [NoArg EXCEPT !.paragraphs = paragraphs],
          ContentCommands(paragraphs), "undefined")

\* getOoxml returns the promise chain.
getOoxml(i) == WordRun(i, "getOoxml", NoArg, <<>>, "promise")

\* setOoxml returning its promise chain.
setOoxmlReturningChain(i, ooxml) ==
  WordRun(i, "setOoxml", [NoArg EXCEPT !.ooxml = ooxml],
          <<Cmd("insertOoxml:Replace", Body, ooxml)>>, "promise")

setOoxml(i, ooxml) ==
  WordRun(i, "setOoxml", [NoArg EXCEPT !.ooxml = ooxml],
          <<Cmd("insertOoxml:Replace", Body, ooxml)>>, "undefined")

\* ------------------------------------------------------------------ steps
\* context.sync() succeeding for invocation i: the host executes the queued
\* commands on the document, in order, and the queue is empty again.
Flush(i) ==
  /\ CanExec(doc, queue[i], Len(queue[i]))
  /\ doc' = ExecAll(doc, queue[i], Len(queue[i]))
  /\ queue' = [queue EXCEPT ![i] = <<>>]

Running(i, o, at) == op[i] = o /\ pc[i] = at
Goto(i, to) == pc' = [pc EXCEPT ![i] = to]

\* The first context.sync() made to wait until no other invocation is in
\* flight.
replaceSync1Locked(i) ==
  /\ \A j \in Inv \ {i} : pc[j] \in {"idle", "done"}
  /\ Running(i, "replaceFoundStringsWithExceptions", "sync1")
  /\ Flush(i)
  /\ foundItems' = [foundItems EXCEPT ![i] = Search(doc', arg[i].searchString)]
  /\ paras' = [paras EXCEPT ![i] = Len(doc')]
  /\ Goto(i, "then1")
  /\ UNCHANGED <<op, arg, excludedRanges, replacementCandidates, bodyOOXML,
                 err, log, ret, chain, value, doc0>>

\* The first context.sync() of replaceFoundStringsWithExceptions: the matches
\* and the paragraphs are loaded.
replaceSync1(i) ==
  /\ Running(i, "replaceFoundStringsWithExceptions", "sync1")
  /\ Flush(i)
  /\ foundItems' = [foundItems EXCEPT ![i] = Search(doc', arg[i].searchString)]
  /\ paras' = [paras EXCEPT ![i] = Len(doc')]
  /\ Goto(i, "then1")
  /\ UNCHANGED <<op, arg, excludedRanges, replacementCandidates, bodyOOXML,
                 err, log, ret, chain, value, doc0>>

\* The loops run over the excluded ranges twice.
CandidatesDoubled(found, excluded) ==
  LET twice == excluded \o excluded IN
  [k \in 1..(Len(found) * Len(twice)) |->
     [range |-> found[((k - 1) \div Len(twice)) + 1],
      locationRelation |->
        [of |-> twice[((k - 1) % Len(twice)) + 1], value |-> "notLoaded"]]]

\* The loops with every candidate holding the range of the last match.
CandidatesSharedRange(found, excluded) ==
  [k \in 1..(Len(found) * Len(excluded)) |->
     [range |-> found[Len(found)],
      locationRelation |->
        [of |-> excluded[((k - 1) % Len(excluded)) + 1], value |-> "notLoaded"]]]

\* The candidates of the two loops, match by match, range by range; the
\* relation of each is a result the next context.sync() loads.
Candidates(found, excluded) ==
  [k \in 1..(Len(found) * Len(excluded)) |->
     [range |-> found[((k - 1) \div Len(excluded)) + 1],
      locationRelation |->
        [of |-> excluded[((k - 1) % Len(excluded)) + 1], value |-> "notLoaded"]]]

\* The first callback replacing every match before it resolves the locator.
replaceThen1ReplacingFirst(i) ==
  /\ Running(i, "replaceFoundStringsWithExceptions", "then1")
  /\ queue' = [queue EXCEPT ![i] =
                 [k \in 1..Len(foundItems[i]) |->
                    Cmd("insertText:Replace", foundItems[i][k],
                        <<arg[i].replaceString>>)]]
  /\ LET item == ItemAt(paras[i], PropertyKey(arg[i].excludedParagraphs)) IN
       IF item = 0
       THEN /\ Goto(i, "rejected")
            /\ err' = [err EXCEPT ![i] = "TypeError"]
            /\ UNCHANGED <<excludedRanges, replacementCandidates>>
       ELSE /\ Goto(i, "sync2")
            /\ excludedRanges' = [excludedRanges EXCEPT ![i] = <<item>>]
            /\ replacementCandidates' =
                 [replacementCandidates EXCEPT ![i] = Candidates(foundItems[i], <<item>>)]
            /\ UNCHANGED err
  /\ UNCHANGED <<doc, op, arg, foundItems, paras, bodyOOXML, log, ret,
                 chain, value, doc0>>

\* The first callback queueing the replacements at once, with no second
\* context.sync() before them.
replaceThen1Eager(i) ==
  /\ Running(i, "replaceFoundStringsWithExceptions", "then1")
  /\ LET item == ItemAt(paras[i], PropertyKey(arg[i].excludedParagraphs)) IN
       IF item = 0
       THEN /\ Goto(i, "rejected")
            /\ err' = [err EXCEPT ![i] = "TypeError"]
            /\ UNCHANGED <<excludedRanges, replacementCandidates, queue>>
       ELSE /\ Goto(i, "sync2")
            /\ excludedRanges' = [excludedRanges EXCEPT ![i] = <<item>>]
            /\ replacementCandidates' =
                 [replacementCandidates EXCEPT ![i] = Candidates(foundItems[i], <<item>>)]
            /\ queue' = [queue EXCEPT ![i] =
                           [k \in 1..Len(foundItems[i]) |->
                              Cmd("insertText:Replace", foundItems[i][k],
                                  <<arg[i].replaceString>>)]]
            /\ UNCHANGED err
  /\ UNCHANGED <<doc, op, arg, foundItems, paras, bodyOOXML, log, ret,
                 chain, value, doc0>>

\* The first callback taking an undefined item for no excluded range
\* instead of raising the TypeError.
replaceThen1Lenient(i) ==
  /\ Running(i, "replaceFoundStringsWithExceptions", "then1")
  /\ LET item == ItemAt(paras[i], PropertyKey(arg[i].excludedParagraphs))
         ranges == IF item = 0 THEN <<>> ELSE <<item>>
     IN /\ Goto(i, "sync2")
        /\ excludedRanges' = [excludedRanges EXCEPT ![i] = ranges]
        /\ replacementCandidates' =
             [replacementCandidates EXCEPT ![i] = Candidates(foundItems[i], ranges)]
  /\ UNCHANGED <<doc, op, arg, foundItems, paras, bodyOOXML, queue, err, log,
                 ret, chain, value, doc0>>

\* The first callback: paras.items[excludedParagraphs].getRange('Whole') is
\* a TypeError when the item is undefined; otherwise the one excluded range
\* is compared with every match.
replaceThen1(i) ==
  /\ Running(i, "replaceFoundStringsWithExceptions", "then1")
  /\ LET item == ItemAt(paras[i], PropertyKey(arg[i].excludedParagraphs)) IN
       IF item = 0
       THEN /\ Goto(i, "rejected")
            /\ err' = [err EXCEPT ![i] = "TypeError"]
            /\ UNCHANGED <<excludedRanges, replacementCandidates>>
       ELSE /\ Goto(i, "sync2")
            /\ excludedRanges' = [excludedRanges EXCEPT ![i] = <<item>>]
            /\ replacementCandidates' =
                 [replacementCandidates EXCEPT ![i] = Candidates(foundItems[i], <<item>>)]
            /\ UNCHANGED err
  /\ UNCHANGED <<doc, op, arg, foundItems, paras, bodyOOXML, queue, log, ret,
                 chain, value, doc0>>

\* The candidates with the relation of each loaded from document d.
Loaded(d, candidates) ==
  [k \in DOMAIN candidates |->
     [range |-> candidates[k].range,
      locationRelation |->
        [of |-> candidates[k].locationRelation.of,
         value |-> CompareLocationWith(d, candidates[k].range,
                                       candidates[k].locationRelation.of)]]]

\* The second context.sync(): the host compares each match with its range on
\* the document as it is now.
replaceSync2(i) ==
  /\ Running(i, "replaceFoundStringsWithExceptions", "sync2")
  /\ Flush(i)
  /\ replacementCandidates' =
       [replacementCandidates EXCEPT ![i] = Loaded(doc', replacementCandidates[i])]
  /\ Goto(i, "then2")
  /\ UNCHANGED <<op, arg, foundItems, paras, excludedRanges, bodyOOXML, err,
                 log, ret, chain, value, doc0>>

\* Replacements without the switch: every candidate is replaced.
ReplacementsOfAll(candidates, replaceString) ==
  [k \in 1..Len(candidates) |->
     Cmd("insertText:Replace", candidates[k].range, <<replaceString>>)]

\* Replacements inserted over the first word of the paragraph of the match.
ReplacementsAtParagraphStart(candidates, replaceString) ==
  LET replaced == SelectSeq(candidates,
                    LAMBDA item :
                      item.locationRelation.value \notin {"Inside", "Equal"})
  IN [k \in 1..Len(replaced) |->
        Cmd("insertText:Replace", <<replaced[k].range[1], 1>>, <<replaceString>>)]

\* Replacements with a case "Before" added to the switch.
ReplacementsBeforeKept(candidates, replaceString) ==
  LET replaced == SelectSeq(candidates,
                    LAMBDA item :
                      item.locationRelation.value \notin {"Inside", "Equal", "Before"})
  IN [k \in 1..Len(replaced) |->
        Cmd("insertText:Replace", replaced[k].range, <<replaceString>>)]

\* The commands of the forEach: a replacement of every candidate whose
\* relation is neither "Inside" nor "Equal".
Replacements(candidates, replaceString) ==
  LET replaced == SelectSeq(candidates,
                    LAMBDA item : item.locationRelation.value \notin {"Inside", "Equal"})
  IN [k \in 1..Len(replaced) |->
        Cmd("insertText:Replace", replaced[k].range, <<replaceString>>)]

\* The second callback queues the replacements.
replaceThen2(i) ==
  /\ Running(i, "replaceFoundStringsWithExceptions", "then2")
  /\ queue' = [queue EXCEPT ![i] =
                 @ \o Replacements(replacementCandidates[i], arg[i].replaceString)]
  /\ Goto(i, "sync3")
  /\ UNCHANGED <<doc, op, arg, locals, err, log, ret, chain, value, doc0>>

\* The context.sync() of replaceDocumentContent: the batch returns its
\* promise, with no callback.
contentSync(i) ==
  /\ Running(i, "replaceDocumentContent", "sync1")
  /\ Flush(i)
  /\ Goto(i, "sync3")
  /\ UNCHANGED <<op, arg, locals, err, log, ret, chain, value, doc0>>

\* The context.sync() of getOoxml loads the markup of the body.
getSync(i) ==
  /\ Running(i, "getOoxml", "sync1")
  /\ Flush(i)
  /\ bodyOOXML' = [bodyOOXML EXCEPT ![i] = ToOoxml(doc')]
  /\ Goto(i, "then1")
  /\ UNCHANGED <<op, arg, foundItems, paras, excludedRanges,
                 replacementCandidates, err, log, ret, chain, value, doc0>>

\* Its callback makes the loaded markup the result of the batch.
getThen(i) ==
  /\ Running(i, "getOoxml", "then1")
  /\ value' = [value EXCEPT ![i] = Str(bodyOOXML[i])]
  /\ Goto(i, "sync3")
  /\ UNCHANGED <<doc, op, arg, locals, queue, err, log, ret, chain, doc0>>

\* The context.sync() of setOoxml inserts the markup in place of the body.
setSync(i) ==
  /\ Running(i, "setOoxml", "sync1")
  /\ Flush(i)
  /\ Goto(i, "then1")
  /\ UNCHANGED <<op, arg, locals, err, log, ret, chain, value, doc0>>

\* Its callback writes to the console.
setThen(i) ==
  /\ Running(i, "setOoxml", "then1")
  /\ log' = [log EXCEPT ![i] =
               Append(@, <<"OOXML added to the beginning of the document body.">>)]
  /\ Goto(i, "sync3")
  /\ UNCHANGED <<doc, op, arg, locals, queue, err, ret, chain, value, doc0>>

\* Word.run ending without its closing context.sync().
runSyncSkipped(i) ==
  /\ pc[i] = "sync3"
  /\ Goto(i, "done")
  /\ chain' = [chain EXCEPT ![i] = "fulfilled"]
  /\ queue' = [queue EXCEPT ![i] = <<>>]
  /\ UNCHANGED <<doc, op, arg, locals, err, log, ret, value, doc0>>

\* Word.run synchronizes once more when the promise of the batch is
\* fulfilled, which executes what the last callback queued; then its own
\* promise, and the chain after it, is fulfilled with the result of the batch.
runSync(i) ==
  /\ pc[i] = "sync3"
  /\ Flush(i)
  /\ Goto(i, "done")
  /\ chain' = [chain EXCEPT ![i] = "fulfilled"]
  /\ UNCHANGED <<op, arg, locals, err, log, ret, value, doc0>>

\* A context.sync() failing: the host has executed some of the queued
\* commands, possibly none or all, and the promise of Word.run is rejected.
syncFail(i) ==
  /\ pc[i] \in {"sync1", "sync2", "sync3"}
  /\ \E k \in 0..Len(queue[i]) :
       /\ CanExec(doc, queue[i], k)
       /\ doc' = ExecAll(doc, queue[i], k)
  /\ queue' = [queue EXCEPT ![i] = <<>>]
  /\ err' = [err EXCEPT ![i] = "OfficeExtension.Error"]
  /\ Goto(i, "rejected")
  /\ UNCHANGED <<op, arg, locals, log, ret, chain, value, doc0>>

\* What the three rejection handlers write to the console.
ErrorLines(e) ==
  <<<<"Error: ", e>>>> \o
  (IF e = "OfficeExtension.Error" THEN <<<<"Debug info: ", e>>>> ELSE <<>>)

\* A handler that logs the error and runs the batch again.
errorHandlerRetrying(i) ==
  /\ pc[i] = "rejected"
  /\ op[i] \in {"replaceFoundStringsWithExceptions", "replaceDocumentContent"}
  /\ log' = [log EXCEPT ![i] = @ \o ErrorLines(err[i])]
  /\ Goto(i, "sync1")
  /\ UNCHANGED <<doc, op, arg, locals, queue, err, ret, chain, value, doc0>>

\* A handler that logs the error and throws it again.
errorHandlerRethrowing(i) ==
  /\ pc[i] = "rejected"
  /\ op[i] \in {"replaceFoundStringsWithExceptions", "replaceDocumentContent"}
  /\ log' = [log EXCEPT ![i] = @ \o ErrorLines(err[i])]
  /\ chain' = [chain EXCEPT ![i] = "rejected"]
  /\ Goto(i, "done")
  /\ UNCHANGED <<doc, op, arg, locals, queue, err, ret, value, doc0>>

\* .catch(this.errorHandler): the error is logged and the chain is fulfilled
\* with what the handler returns, nothing.
errorHandler(i) ==
  /\ pc[i] = "rejected"
  /\ op[i] \in {"replaceFoundStringsWithExceptions", "replaceDocumentContent"}
  /\ log' = [log EXCEPT ![i] = @ \o ErrorLines(err[i])]
  /\ chain' = [chain EXCEPT ![i] = "fulfilled"]
  /\ value' = [value EXCEPT ![i] = Undefined]
  /\ Goto(i, "done")
  /\ UNCHANGED <<doc, op, arg, locals, queue, err, ret, doc0>>

\* The handler of getOoxml without its return statement.
getOoxmlCatchNoReturn(i) ==
  /\ Running(i, "getOoxml", "rejected")
  /\ log' = [log EXCEPT ![i] = @ \o ErrorLines(err[i])]
  /\ chain' = [chain EXCEPT ![i] = "fulfilled"]
  /\ value' = [value EXCEPT ![i] = Undefined]
  /\ Goto(i, "done")
  /\ UNCHANGED <<doc, op, arg, locals, queue, err, ret, doc0>>

\* The handler of getOoxml returns the empty string.
getOoxmlCatch(i) ==
  /\ Running(i, "getOoxml", "rejected")
  /\ log' = [log EXCEPT ![i] = @ \o ErrorLines(err[i])]
  /\ chain' = [chain EXCEPT ![i] = "fulfilled"]
  /\ value' = [value EXCEPT ![i] = Str(<<>>)]
  /\ Goto(i, "done")
  /\ UNCHANGED <<doc, op, arg, locals, queue, err, ret, doc0>>

\* The handler of setOoxml.
setOoxmlCatch(i) ==
  /\ Running(i, "setOoxml", "rejected")
  /\ log' = [log EXCEPT ![i] = @ \o ErrorLines(err[i])]
  /\ chain' = [chain EXCEPT ![i] = "fulfilled"]
  /\ value' = [value EXCEPT ![i] = Undefined]
  /\ Goto(i, "done")
  /\ UNCHANGED <<doc, op, arg, locals, queue, err, ret, doc0>>

\* The ended invocation is dropped: its request context, its ranges and
\* candidates and its promise are garbage.
release(i) ==
  /\ pc[i] = "done"
  /\ pc' = [pc EXCEPT ![i] = "idle"]
  /\ op' = [op EXCEPT ![i] = "none"]
  /\ arg' = [arg EXCEPT ![i] = NoArg]
  /\ foundItems' = [foundItems EXCEPT ![i] = <<>>]
  /\ paras' = [paras EXCEPT ![i] = 0]
  /\ excludedRanges' = [excludedRanges EXCEPT ![i] = <<>>]
  /\ replacementCandidates' = [replacementCandidates EXCEPT ![i] = <<>>]
  /\ bodyOOXML' = [bodyOOXML EXCEPT ![i] = <<>>]
  /\ err' = [err EXCEPT ![i] = "none"]
  /\ log' = [log EXCEPT ![i] = <<>>]
  /\ ret' = [ret EXCEPT ![i] = "none"]
  /\ chain' = [chain EXCEPT ![i] = "none"]
  /\ value' = [value EXCEPT ![i] = Undefined]
  /\ doc0' = [doc0 EXCEPT ![i] = << <<>> >>]
  /\ UNCHANGED <<doc, queue>>

\* A step of an invocation of replaceFoundStringsWithExceptions in flight.
ReplaceStep(i) ==
  \/ replaceSync1(i)
  \/ replaceThen1(i)
  \/ replaceSync2(i)
  \/ replaceThen2(i)
  \/ runSync(i)
  \/ syncFail(i)
  \/ errorHandler(i)

\* A step of an invocation of one of the other operations.
OtherStep(i) ==
  \/ contentSync(i)
  \/ getSync(i)
  \/ getThen(i)
  \/ setSync(i)
  \/ setThen(i)
  \/ getOoxmlCatch(i)
  \/ setOoxmlCatch(i)

\* ---------------------------------------------------------- specifications
\* A caller that serializes its calls: an operation is called only when the
\* one before it has ended, so one invocation record is enough.
Serialized == \A j \in Inv : pc[j] = "idle"

Next ==
  \/ \E s \in SearchStrings, r \in ReplaceStrings, e \in LocatorInputs :
       Serialized /\ replaceFoundStringsWithExceptions("a", s, r, e)
  \/ \E ps \in ParagraphInputs : Serialized /\ replaceDocumentContent("a", ps)
  \/ Serialized /\ getOoxml("a")
  \/ \E x \in OoxmlInputs : Serialized /\ setOoxml("a", x)
  \/ \E i \in Inv : ReplaceStep(i)
  \/ \E i \in Inv : OtherStep(i)
  \/ \E i \in Inv : release(i)

Spec == Init /\ [][Next]_vars

\* Callers that do not serialize: two invocations of
\* replaceFoundStringsWithExceptions against the same document, each called
\* once, whatever the other is doing.
ConcDocs == SampleDocs
ConcLocators == {<<"0">>, <<"1">>}

InitConc == doc \in ConcDocs /\ Idle

NextConc ==
  \/ \E i \in Inv, s \in SearchStrings, r \in ReplaceStrings, e \in ConcLocators :
       replaceFoundStringsWithExceptions(i, s, r, e)
  \/ \E i \in Inv : ReplaceStep(i)

SpecConc == InitConc /\ [][NextConc]_vars


\* The same callers with any locator, under the scheduling of the host and of
\* the JavaScript event loop: a context.sync() in flight is eventually
\* answered, with success or with a failure, and a callback whose promise is
\* settled is eventually run.
NextFair ==
  \/ \E i \in Inv, s \in SearchStrings, r \in ReplaceStrings, e \in LocatorInputs :
       replaceFoundStringsWithExceptions(i, s, r, e)
  \/ \E i \in Inv : ReplaceStep(i)

SpecFair ==
  InitConc /\ [][NextFair]_vars /\ \A i \in Inv : WF_vars(ReplaceStep(i))

\* ------------------------------------------------------------- properties
Replacing(i) == op[i] = "replaceFoundStringsWithExceptions"
Ended(i) == pc[i] = "done"
Succeeded(i) == pc[i] = "done" /\ err[i] = "none"
HostFailed(i) == err[i] = "OfficeExtension.Error"
WordAt(d, m) == d[m[1]][m[2]]
Elements(s) == {s[k] : k \in DOMAIN s}

\* The matches of the search string in the document the operation was called
\* on, and whether a candidate of the invocation classifies match m as
\* inside of, or equal to, an excluded range.
MatchesAtCall(i) == Elements(Search(doc0[i], arg[i].searchString))
ClassifiedExcluded(i, m) ==
  \E k \in DOMAIN replacementCandidates[i] :
    /\ replacementCandidates[i][k].range = m
    /\ replacementCandidates[i][k].locationRelation.value \in {"Inside", "Equal"}

ScenarioDoc == << <<"The", "cat", "sat">>, <<"The", "cat", "ran">> >>
ScenarioResult == << <<"The", "cat", "sat">>, <<"The", "dog", "ran">> >>
ScenarioCall(i) ==
  /\ Replacing(i)
  /\ doc0[i] = ScenarioDoc
  /\ arg[i].searchString = "cat"
  /\ arg[i].replaceString = "dog"
  /\ arg[i].excludedParagraphs = <<"0">>

AllLoaded(i) ==
  \A k \in DOMAIN replacementCandidates[i] :
    replacementCandidates[i][k].locationRelation.value # "notLoaded"

\* C2: an invocation of replaceFoundStringsWithExceptions has a replacement
\* queued only after its second context.sync(), when the relation of every
\* (match, excluded range) pair is loaded; until then the document is the one
\* it was called on, and once loaded the relations stay those of that
\* document, whatever has been replaced since.
C2_ClassifyBeforeMutate ==
  \A i \in Inv :
    Replacing(i) =>
      /\ queue[i] # <<>> => pc[i] = "sync3" /\ AllLoaded(i)
      /\ pc[i] \in {"sync1", "then1", "sync2", "then2"} => doc = doc0[i]
      /\ (pc[i] \in {"then2", "sync3"} \/ Succeeded(i)) =>
           /\ Len(replacementCandidates[i]) = Len(foundItems[i]) * Len(excludedRanges[i])
           /\ \A k \in DOMAIN replacementCandidates[i] :
                replacementCandidates[i][k].locationRelation.value =
                  CompareLocationWith(doc0[i], replacementCandidates[i][k].range,
                                      excludedRanges[i][1])

\* A run that ended with one match kept and another replaced: a replacement
\* has been committed and the kept match is still classified Inside.
C2_Witness ==
  \E i \in Inv :
    /\ Replacing(i) /\ Succeeded(i) /\ doc # doc0[i]
    /\ \E m \in MatchesAtCall(i) : ClassifiedExcluded(i, m)
    /\ \E m \in MatchesAtCall(i) : ~ClassifiedExcluded(i, m)

\* C3: when replaceFoundStringsWithExceptions is called with no locator and
\* ends with no failure of the host, every match of the search string is the
\* replacement string.
C3_VacuousExclusion ==
  \A i \in Inv :
    (Replacing(i) /\ Ended(i) /\ ~HostFailed(i) /\ arg[i].excludedParagraphs = <<>>) =>
      \A m \in MatchesAtCall(i) : WordAt(doc, m) = arg[i].replaceString

\* Whether every supplied locator names a paragraph of the document.
LocatorsInRange(i) ==
  \A k \in DOMAIN arg[i].excludedParagraphs :
    ItemAt(Len(doc0[i]), <<arg[i].excludedParagraphs[k]>>) # 0

\* C4: once the excluded ranges are built (and with every supplied locator
\* naming a paragraph, no failure of the host), there is one excluded range
\* per supplied locator, the whole range of the paragraph it names, and a
\* match inside any of these paragraphs keeps its word.
C4_OneZonePerLocator ==
  \A i \in Inv :
    (Replacing(i) /\ LocatorsInRange(i) /\ ~HostFailed(i)
       /\ pc[i] \in {"sync2", "then2", "sync3", "rejected", "done"}) =>
      /\ Len(excludedRanges[i]) = Len(arg[i].excludedParagraphs)
      /\ \A k \in DOMAIN excludedRanges[i] :
           excludedRanges[i][k] = ItemAt(Len(doc0[i]), <<arg[i].excludedParagraphs[k]>>)
      /\ Ended(i) =>
           \A m \in MatchesAtCall(i) :
             (\E k \in DOMAIN arg[i].excludedParagraphs :
                CompareLocationWith(doc0[i], m,
                  ItemAt(Len(doc0[i]), <<arg[i].excludedParagraphs[k]>>)) \in {"Inside", "Equal"})
             => WordAt(doc, m) = WordAt(doc0[i], m)

\* Whether the excludedParagraphs of i resolves to a paragraph at line 37.
Resolves(i) == ItemAt(Len(doc0[i]), PropertyKey(arg[i].excludedParagraphs)) # 0

\* C5 as stated, for a call with one locator and a host that does not fail:
\* when the search string has no match, no replacement is queued, the document
\* is unchanged and the operation ends with success.
C5_NoMatchSucceeds ==
  \A i \in Inv :
    (Replacing(i) /\ MatchesAtCall(i) = {} /\ Len(arg[i].excludedParagraphs) = 1) =>
      /\ queue[i] = <<>>
      /\ doc = doc0[i]
      /\ (Ended(i) /\ ~HostFailed(i)) => err[i] = "none"

\* C5 amended: when the search string has no match, no replacement is queued
\* and the document is unchanged; the operation ends with success exactly when
\* excludedParagraphs resolves to a paragraph and no context.sync() fails, and
\* otherwise with the error logged.
C5_NoMatchNoEffect ==
  \A i \in Inv :
    (Replacing(i) /\ MatchesAtCall(i) = {}) =>
      /\ queue[i] = <<>>
      /\ doc = doc0[i]
      /\ Ended(i) =>
           /\ err[i] = "none" => Resolves(i)
           /\ ~Resolves(i) => err[i] \in {"TypeError", "OfficeExtension.Error"}
           /\ err[i] = "TypeError" => ~Resolves(i)
           /\ err[i] # "none" => <<"Error: ", err[i]>> \in Elements(log[i])

C5_Witness ==
  \E i \in Inv :
    /\ Replacing(i) /\ Succeeded(i) /\ MatchesAtCall(i) = {}
    /\ Len(doc0[i]) = 2 /\ doc0[i][2] # <<>> /\ doc = doc0[i]

Operations ==
  {"replaceFoundStringsWithExceptions", "replaceDocumentContent", "getOoxml", "setOoxml"}

\* The rejection handler of the operation of invocation i can run.
HandlerEnabled(i) ==
  ENABLED (errorHandler(i) \/ getOoxmlCatch(i) \/ setOoxmlCatch(i))

\* C6: for each of the four operations, a rejection of the Word.run promise,
\* whatever step raised it, is taken by the handler of the operation, which
\* logs the error; the promise chain of the operation is never rejected, so
\* nothing is thrown to the caller.
C6_NoFailureCrosses ==
  \A i \in Inv :
    /\ chain[i] # "rejected"
    /\ pc[i] = "rejected" => (err[i] # "none" /\ HandlerEnabled(i))
    /\ (Ended(i) /\ err[i] # "none") =>
         /\ chain[i] = "fulfilled"
         /\ <<"Error: ", err[i]>> \in Elements(log[i])
    /\ Ended(i) => chain[i] = "fulfilled"

\* A failure of the closing context.sync() of replaceFoundStringsWithExceptions
\* that left part of the replacements in the document, caught and logged.
C6_Witness ==
  \E i \in Inv :
    /\ Replacing(i) /\ Ended(i) /\ HostFailed(i) /\ doc # doc0[i]
    /\ chain[i] = "fulfilled"
    /\ <<"Error: ", err[i]>> \in Elements(log[i])

\* What the caller can tell from what the operation returned to it.
CallerSees(i) ==
  IF ret[i] # "promise" THEN "nothing"
  ELSE IF chain[i] = "pending" THEN "pending"
  ELSE IF chain[i] = "fulfilled" /\ value[i] # Str(<<>>) THEN "success"
  ELSE "failure"

\* C7 as stated: every operation returns a value from which the caller can
\* tell that the operation has ended and whether it succeeded or failed.
C7_OutcomeReturned ==
  \A i \in Inv :
    /\ (op[i] \in Operations /\ ~Ended(i)) => CallerSees(i) = "pending"
    /\ Ended(i) => CallerSees(i) = (IF err[i] = "none" THEN "success" ELSE "failure")

\* C7 amended: only getOoxml returns something, the promise chain, pending
\* until the operation has ended and then fulfilled with the markup on success
\* and with the empty string on failure; the other three operations return
\* undefined when called, and their outcome is only in the console log.
C7_OnlyGetOoxmlReturns ==
  \A i \in Inv :
    /\ op[i] \in Operations \ {"getOoxml"} =>
         /\ ret[i] = "undefined"
         /\ CallerSees(i) = "nothing"
         /\ (Ended(i) /\ err[i] # "none") => <<"Error: ", err[i]>> \in Elements(log[i])
         /\ (Ended(i) /\ err[i] = "none") =>
              \A l \in Elements(log[i]) : l[1] # "Error: "
    /\ op[i] = "getOoxml" =>
         /\ ret[i] = "promise"
         /\ ~Ended(i) => CallerSees(i) = "pending"
         /\ Ended(i) => CallerSees(i) = (IF err[i] = "none" THEN "success" ELSE "failure")

\* setOoxml given a markup that is not well formed: it has ended in failure
\* and its caller holds nothing.
C7_Witness ==
  \E i \in Inv :
    /\ op[i] = "setOoxml" /\ Ended(i) /\ err[i] # "none"
    /\ ret[i] = "undefined" /\ CallerSees(i) = "nothing"

\* C8: getOoxml ends with its promise fulfilled, with the markup of the body
\* when no context.sync() failed and with the empty string when one did.
C8_GetOoxmlResult ==
  \A i \in Inv :
    (op[i] = "getOoxml" /\ Ended(i)) =>
      /\ ret[i] = "promise"
      /\ chain[i] = "fulfilled"
      /\ err[i] = "none" => value[i] = Str(ToOoxml(doc)) /\ value[i].str # <<>>
      /\ err[i] # "none" => value[i] = Str(<<>>)

\* getOoxml after a failed context.sync(), on a body that has words.
C8_Witness ==
  \E i \in Inv :
    /\ op[i] = "getOoxml" /\ Ended(i) /\ HostFailed(i)
    /\ value[i] = Str(<<>>) /\ chain[i] = "fulfilled"
    /\ \E p \in DOMAIN doc : doc[p] # <<>>

\* C9: replaceDocumentContent queues the clear first, then the first entry as
\* text, then every later entry as a paragraph at the end, in input order; one
\* context.sync() executes them all, and the body is then exactly the entries,
\* one paragraph each, whatever it held before.
C9_ContentReplaced ==
  \A i \in Inv :
    op[i] = "replaceDocumentContent" =>
      LET ps == arg[i].paragraphs IN
      /\ ps # <<>>
      /\ pc[i] = "sync1" =>
           /\ Len(queue[i]) = Len(ps) + 1
           /\ queue[i][1].type = "clear"
           /\ queue[i][2] = Cmd("insertText:End", Body, ps[1])
           /\ \A k \in 2..Len(ps) : queue[i][k + 1] = Cmd("insertParagraph:End", Body, ps[k])
      /\ pc[i] = "sync3" => (doc = ps /\ queue[i] = <<>>)
      /\ Succeeded(i) => doc = ps

\* As many entries as a list may have, the last with words, put in place of
\* a body that had other content.
C9_Witness ==
  \E i \in Inv :
    /\ op[i] = "replaceDocumentContent" /\ Succeeded(i)
    /\ Len(arg[i].paragraphs) = MaxParas
    /\ doc = arg[i].paragraphs
    /\ doc0[i] # doc /\ doc0[i] # << <<>> >>
    /\ Len(doc) = MaxParas /\ doc[Len(doc)] # <<>>

\* The document after replaceFoundStringsWithExceptions with arguments a has
\* run alone on document d, no context.sync() failing.
RunAlone(d, a) ==
  LET item == ItemAt(Len(d), PropertyKey(a.excludedParagraphs))
      q == Replacements(Loaded(d, Candidates(Search(d, a.searchString), <<item>>)),
                        a.replaceString)
  IN IF item = 0 THEN d ELSE ExecAll(d, q, Len(q))

\* The documents the two serial orders of two invocations give.
SerialOutcomes(d, a, b) == {RunAlone(RunAlone(d, a), b), RunAlone(RunAlone(d, b), a)}

\* C10: nothing in the service makes an invocation wait for another one: a
\* call, and each context.sync() of an invocation, can take place whatever the
\* other invocation is doing, and the replacements an invocation commits are
\* those of the matches and relations it loaded, whatever the document has
\* become since.  (The witness is a final document no serial order gives.)
C10_NoSerialization ==
  \A i \in Inv :
    /\ pc[i] = "idle" =>
         ENABLED (\E s \in SearchStrings, r \in ReplaceStrings, e \in ConcLocators :
                    replaceFoundStringsWithExceptions(i, s, r, e))
    /\ pc[i] = "sync1" => ENABLED replaceSync1(i)
    /\ pc[i] = "sync2" => ENABLED replaceSync2(i)
    /\ pc[i] = "sync3" =>
         /\ ENABLED runSync(i)
         /\ \A m \in Elements(foundItems[i]) :
              ClassifiedExcluded(i, m) <=>
                (\A k \in DOMAIN queue[i] : queue[i][k].range # m)

\* Both invocations were called on the same document and ended without
\* failure, and the document is one that neither serial order gives.
C10_Witness ==
  /\ \A i \in Inv : Replacing(i) /\ Succeeded(i)
  /\ doc0["a"] = doc0["b"]
  /\ doc \notin SerialOutcomes(doc0["a"], arg["a"], arg["b"])

\* The candidates of i whose relation makes them replaced.
ToReplace(i) ==
  {k \in DOMAIN replacementCandidates[i] :
     replacementCandidates[i][k].locationRelation.value \notin {"Inside", "Equal"}}

\* C11: the replacements queued by the second callback stay queued, the
\* document untouched, until the closing context.sync() of Word.run executes
\* them all in one step; when the operation has ended without failure every
\* queued replacement is in the document and nothing is left in the queue.
C11_CommitBeforeEnd ==
  \A i \in Inv :
    Replacing(i) =>
      /\ pc[i] = "sync3" =>
           /\ Len(queue[i]) = Cardinality(ToReplace(i))
           /\ doc = doc0[i]
      /\ Ended(i) => queue[i] = <<>>
      /\ Succeeded(i) =>
           /\ \A k \in ToReplace(i) :
                WordAt(doc, replacementCandidates[i][k].range) = arg[i].replaceString
           /\ doc = ExecAll(doc0[i],
                            Replacements(replacementCandidates[i], arg[i].replaceString),
                            Cardinality(ToReplace(i)))

\* A run that ended without failure after two replacements, each of which
\* changed a word.
C11_Witness ==
  \E i \in Inv :
    /\ Replacing(i) /\ Succeeded(i) /\ queue[i] = <<>>
    /\ Cardinality(ToReplace(i)) = 2
    /\ \A k \in ToReplace(i) :
         WordAt(doc, replacementCandidates[i][k].range)
           # WordAt(doc0[i], replacementCandidates[i][k].range)

OutOfRange(i) ==
  /\ Len(arg[i].excludedParagraphs) = 1
  /\ \E k \in 1..Len(Digit) :
       Digit[k] = arg[i].excludedParagraphs[1] /\ k > Len(doc0[i])

\* C13: with an out-of-range locator replaceFoundStringsWithExceptions never
\* gets past the resolution of the locator: no excluded range, candidate or
\* replacement is built and the document stays as it was; once the paragraphs
\* are loaded the failure is the TypeError raised at the resolution itself,
\* and the operation ends with the failure logged by its handler and its
\* promise chain fulfilled, nothing thrown to the caller.
C13_InvalidLocatorFails ==
  \A i \in Inv :
    (Replacing(i) /\ OutOfRange(i)) =>
      /\ pc[i] \in {"sync1", "then1", "rejected", "done"}
      /\ excludedRanges[i] = <<>> /\ replacementCandidates[i] = <<>>
      /\ queue[i] = <<>> /\ doc = doc0[i]
      /\ (pc[i] \in {"rejected", "done"} /\ paras[i] # 0) => err[i] = "TypeError"
      /\ pc[i] = "rejected" => ENABLED errorHandler(i)
      /\ Ended(i) =>
           /\ err[i] # "none"
           /\ log[i] = ErrorLines(err[i])
           /\ chain[i] = "fulfilled"

\* An ended call whose locator is out of range, on a document that holds
\* matches of the search string: the TypeError of the resolution is logged.
C13_Witness ==
  \E i \in Inv :
    /\ Replacing(i) /\ OutOfRange(i) /\ Ended(i)
    /\ MatchesAtCall(i) # {}
    /\ paras[i] = Len(doc0[i])
    /\ err[i] = "TypeError"
    /\ log[i] = <<<<"Error: ", "TypeError">>>>

\* C14: once the candidates are built there is exactly one per pair of a
\* match and an excluded range, match by match: as many candidates as matches
\* times excluded ranges, each holding the range of its match and, once
\* loaded, the relation of that match to that excluded range.
C14_CandidateCrossProduct ==
  \A i \in Inv :
    (Replacing(i) /\ excludedRanges[i] # <<>>) =>
      LET found == foundItems[i]
          excluded == excludedRanges[i]
          candidates == replacementCandidates[i]
      IN /\ found = Search(doc0[i], arg[i].searchString)
         /\ Len(candidates) = Len(found) * Len(excluded)
         /\ \A a \in DOMAIN found : \A b \in DOMAIN excluded :
              LET item == candidates[(a - 1) * Len(excluded) + b] IN
              /\ item.range = found[a]
              /\ item.locationRelation.of = excluded[b]
              /\ item.locationRelation.value \in
                   {"notLoaded", CompareLocationWith(doc0[i], found[a], excluded[b])}
              /\ pc[i] \in {"then2", "sync3"} \/ Succeeded(i)
                   => item.locationRelation.value # "notLoaded"

\* Three matches classified against the excluded paragraph, with three
\* distinct ranges and more than one relation among the candidates.
C14_Witness ==
  \E i \in Inv :
    /\ Replacing(i) /\ pc[i] = "then2"
    /\ Len(foundItems[i]) = 3
    /\ Len(replacementCandidates[i]) = 3
    /\ Cardinality({replacementCandidates[i][k].range :
                      k \in DOMAIN replacementCandidates[i]}) = 3
    /\ Cardinality({replacementCandidates[i][k].locationRelation.value :
                      k \in DOMAIN replacementCandidates[i]}) >= 2

\* The phases of an invocation of replaceFoundStringsWithExceptions that
\* precede the callback queueing the replacements.
BeforeMutation == {"sync1", "then1", "sync2"}

\* C15: a step that makes replaceFoundStringsWithExceptions fail before the
\* callback that queues the replacements (a failure of the first or of the
\* second context.sync(), or the locator not resolving) is taken with no
\* command queued and leaves none queued, and the document is before and
\* after it the document the operation was called on; the handler then leaves
\* document and queue as they are.
C15_FailureBeforeMutation ==
  [][\A i \in Inv :
       /\ (Replacing(i) /\ pc[i] \in BeforeMutation /\ pc'[i] = "rejected") =>
            /\ queue[i] = <<>> /\ queue'[i] = <<>>
            /\ doc = doc0[i] /\ doc' = doc0[i]
            /\ err'[i] # "none"
       /\ (Replacing(i) /\ pc[i] = "rejected" /\ pc'[i] = "done") =>
            /\ queue'[i] = queue[i] /\ doc' = doc]_vars

\* An ended call whose second context.sync() failed: matches were found and
\* candidates built, none of them replaced.
C15_Witness ==
  \E i \in Inv :
    /\ Replacing(i) /\ Ended(i) /\ HostFailed(i)
    /\ replacementCandidates[i] # <<>> /\ ~AllLoaded(i)
    /\ excludedRanges[i] # <<>>
    /\ \E m \in MatchesAtCall(i) : m[1] # excludedRanges[i][1]
    /\ doc = doc0[i] /\ queue[i] = <<>>

\* C16: the replacements queued by an invocation have pairwise distinct
\* ranges: no match is the target of two replacements; the invocation has at
\* most one excluded range, and so one candidate per match.
C16_OneReplacePerMatch ==
  \A i \in Inv :
    Replacing(i) =>
      /\ \A a, b \in DOMAIN queue[i] :
           queue[i][a].range = queue[i][b].range => a = b
      /\ Len(excludedRanges[i]) <= 1
      /\ \A a, b \in DOMAIN replacementCandidates[i] :
           replacementCandidates[i][a].range = replacementCandidates[i][b].range
             => a = b

\* Two replacements queued, of two matches.
C16_Witness ==
  \E i \in Inv :
    /\ Replacing(i) /\ pc[i] = "sync3"
    /\ Len(queue[i]) = 2
    /\ queue[i][1].range # queue[i][2].range
    /\ Len(excludedRanges[i]) = 1

PhaseRank(at) ==
  CASE at = "idle" -> 0
    [] at = "sync1" -> 1
    [] at = "then1" -> 2
    [] at = "sync2" -> 3
    [] at = "then2" -> 4
    [] at = "sync3" -> 5
    [] at = "rejected" -> 6
    [] at = "done" -> 7

\* The invocation has ended with its replacements committed, or with its
\* failure logged.
Terminal(i) ==
  /\ Ended(i) /\ chain[i] = "fulfilled" /\ queue[i] = <<>>
  /\ \/ err[i] = "none" /\ log[i] = <<>>
     \/ err[i] # "none" /\ log[i] = ErrorLines(err[i])

\* C18: with every context.sync() eventually answered and every settled
\* callback eventually run, an invocation of replaceFoundStringsWithExceptions
\* that was called eventually ends, its replacements committed or its failure
\* logged, whatever another invocation does meanwhile; every step of an
\* invocation takes it to a later phase, never back to an earlier one.
C18_Terminates ==
  /\ \A i \in Inv : (Replacing(i) /\ pc[i] # "idle") ~> Terminal(i)
  /\ [][\A i \in Inv :
          pc'[i] # pc[i] => PhaseRank(pc'[i]) > PhaseRank(pc[i])]_vars

\* Two invocations that both ended, one with a replacement committed and the
\* other with the failure of its locator logged.
C18_Witness ==
  \E i, j \in Inv :
    /\ Replacing(i) /\ Terminal(i) /\ err[i] = "none"
    /\ ToReplace(i) # {}
    /\ Replacing(j) /\ Terminal(j) /\ err[j] = "TypeError"

====
